---- MODULE Spec2Model ----
(***************************************************************************)
(* A model of the CV renderer: backend/__init__.py (BaseRenderer, the      *)
(* docker sandbox) and backend/pdflatex.py (Renderer: the intermediate     *)
(* document and the pdflatex render with its exit-code and log resolver).  *)
(*                                                                         *)
(* Spec       is one call of Renderer.render from the template check on.   *)
(* SpecExpand is one call of Renderer.expand_intermediate on a document    *)
(*            drawn from bounded sets.                                     *)
(*                                                                         *)
(* Python values: a bytes/str file content is a sequence of lines; a line  *)
(* is a record [src, n, txt].  A dict is a function whose DOMAIN is its    *)
(* key set, so dict.get(k) is "k \in DOMAIN d" plus d[k].                  *)
(***************************************************************************)
EXTENDS Integers, Sequences, FiniteSets, TLC

VARIABLES
    pc,          \* position of render / run_in_docker
    tmpdir,      \* the TemporaryDirectory: "none", "exists", "removed"
    wsFiles,     \* files inside the workspace: name -> content
    builds,      \* number of `docker build` invocations
    runs,        \* number of `docker run` invocations
    build_proc,  \* the CompletedProcess of the build
    run_proc,    \* the CompletedProcess of the run
    result,      \* the dict run_in_docker returned
    exit_code,   \* render's resolved exit code
    chosen_log,  \* render's chosen_log
    outFiles,    \* files persisted in out_dir: "tex", "log", "pdf" -> content
    error,       \* the exception that left render, if any
    retval,      \* render's return value
    stages,      \* the stages entered so far, in order
    xin,         \* expand_intermediate: the raw document, exclusions, today
    xpc,         \* expand_intermediate: position
    by_employer, \* expand_intermediate: employer key -> entries
    skill_stats, \* expand_intermediate: skill id -> usage
    experience,  \* expand_intermediate: the experience list
    skills,      \* expand_intermediate: annotated skill groups
    metrics,     \* expand_intermediate: the metrics
    mb,          \* _months_between: the arguments, the result, position
    trs          \* tr: self.language, the value, lang, the result, position

rvars == <<pc, tmpdir, wsFiles, builds, runs, build_proc, run_proc, result,
           exit_code, chosen_log, outFiles, error, retval, stages>>
xvars == <<xin, xpc, by_employer, skill_stats, experience, skills, metrics>>
pvars == <<mb, trs>>
vars == <<rvars, xvars, pvars>>

-----------------------------------------------------------------------------
(* Bounds and program constants *)

MaxCode == 2          \* exit codes range over 0..MaxCode
MaxExtra == 1         \* a long log has TailLines + MaxExtra lines
MaxProjects == 2      \* the number of projects in the document
MaxYearSpan == 1       \* _months_between is called on dates of 2020 .. 2020 + MaxYearSpan
MaxLangLen == 3        \* the length of the generated texts of self.language
MaxKeys == 2           \* the number of languages of a localized value
TailLines == 60       \* txt[-60:]

ExitCodes == 0..MaxCode

-----------------------------------------------------------------------------
(* Values *)

Line(s, i) == [src |-> s, n |-> i, txt |-> <<>>]
TextLine(s, t) == [src |-> s, n |-> 0, txt |-> t]

MkLines(s, len) == [i \in 1..len |-> Line(s, i)]

EmptyMap == [k \in {} |-> <<>>]

\* dict.get(k) or b'' : a missing key and an empty value both give b''.
GetOrEmpty(m, k) == IF k \in DOMAIN m THEN m[k] ELSE <<>>

\* bool(dict.get(k))
Truthy(m, k) == k \in DOMAIN m /\ m[k] # <<>>

\* d1 | d2 (d2 wins)
Merge(d1, d2) ==
    [k \in DOMAIN d1 \cup DOMAIN d2 |-> IF k \in DOMAIN d2 THEN d2[k] ELSE d1[k]]

LastN(s, k) == IF Len(s) <= k THEN s ELSE SubSeq(s, Len(s) - k + 1, Len(s))

NoProc == [ran |-> FALSE, returncode |-> 0, stdout |-> "", stderr |-> ""]
NoError == [kind |-> "none", stage |-> "none", hasCode |-> FALSE, code |-> 0,
            stdout |-> "", stderr |-> "", tail |-> <<>>]
NoResult == [stdout |-> "", stderr |-> "", outputs |-> EmptyMap,
             image |-> "", returncode |-> 0, build_stdout |-> "", build_stderr |-> ""]

-----------------------------------------------------------------------------
(* render: the inputs of the sandbox *)

\* files = {'main.tex': rendered_tex} plus the template directory's other files
InputFiles ==
    [k \in {"main.tex", "cv.cls"} |-> <<Line(k, 1)>>]

\* cmd = ['sh', '-lc', shell_script]
Cmd == <<"sh", "-lc", "shell_script">>

\* outputs = ['main.pdf', 'build.log', 'main.log', 'exit.code']
Outputs == <<"main.pdf", "build.log", "main.log", "exit.code">>

\* image_tag derived from basename
ImageTag == "cv:latest"

-----------------------------------------------------------------------------
(* What the environment can do: the outcomes of the external commands *)

BuildStdio == {[stdout |-> "", stderr |-> ""],
               [stdout |-> "build-out", stderr |-> "build-err"]}
RunStdio == {[stdout |-> "", stderr |-> ""],
             [stdout |-> "", stderr |-> "run-err"],
             [stdout |-> "run-out", stderr |-> "run-err"]}

Absent == [present |-> FALSE, data |-> <<>>]
Present(d) == [present |-> TRUE, data |-> d]

LogLens == {0, 2, TailLines + MaxExtra}
LogOpts(name) == {Absent} \cup {Present(MkLines(name, len)) : len \in LogLens}
PdfOpts == {Absent, Present(<<>>), Present(<<Line("main.pdf", 1)>>)}
\* exit.code: missing, empty, the text of an integer, or other text
ExitOpts == {Absent, Present(<<>>), Present(<<Line("bad", 0)>>)}
            \cup {Present(<<Line("int", c)>>) : c \in ExitCodes}

\* The files a container run can leave in the workspace.
MkOutputs(p, b, m, e) ==
    LET all == [k \in {"main.pdf", "build.log", "main.log", "exit.code"} |->
                  CASE k = "main.pdf" -> p
                    [] k = "build.log" -> b
                    [] k = "main.log" -> m
                    [] OTHER -> e]
    IN [k \in {x \in DOMAIN all : all[x].present} |-> all[k].data]

ContainerOutputs ==
    {MkOutputs(p, b, m, e) : p \in PdfOpts, b \in LogOpts("build.log"),
                             m \in LogOpts("main.log"), e \in ExitOpts}

-----------------------------------------------------------------------------
(* run_in_docker: the pure parts *)

\* raise RuntimeError('Docker CLI not found ...')
DockerMissingError ==
    [NoError EXCEPT !.kind = "RuntimeError", !.stage = "docker"]

\* raise FileNotFoundError('Dockerfile not found ...')
DockerfileMissingError ==
    [NoError EXCEPT !.kind = "FileNotFoundError", !.stage = "dockerfile"]

\* a build whose return code is not looked at
BuildFailedIgnored(proc) == FALSE

\* if build_proc.returncode != 0
BuildFailed(proc) == proc.returncode # 0

\* f'Docker build failed (code {returncode}).\nSTDOUT:\n{stdout}\nSTDERR:\n{stderr}'
BuildError(proc) ==
    [NoError EXCEPT !.kind = "RuntimeError", !.stage = "build",
                    !.hasCode = TRUE, !.code = proc.returncode,
                    !.stdout = proc.stdout, !.stderr = proc.stderr]

\* if run_proc.returncode != 0
RunFailed(proc) == proc.returncode # 0

\* f'Docker run failed (code {returncode}).\nSTDOUT:\n{stdout}\nSTDERR:\n{stderr}'
RunError(proc) ==
    [NoError EXCEPT !.kind = "RuntimeError", !.stage = "run",
                    !.hasCode = TRUE, !.code = proc.returncode,
                    !.stdout = proc.stdout, !.stderr = proc.stderr]

\* an OSError from open()/write()/read() inside the with block
IOError(stage) == [NoError EXCEPT !.kind = "OSError", !.stage = stage]

\* a workspace that survives the with block
CleanupLeaks(t) == t

\* TemporaryDirectory.__exit__: the with block is left, by return or by exception
Cleanup(t) == "removed"

\* the files left once the with block is left
AfterCleanup(t, files) == IF t = "removed" THEN EmptyMap ELSE files

\* A pattern is collected when glob finds it in the workspace; a pattern with no
\* match gives no entry.
Collect(ws, patterns) ==
    [k \in {patterns[i] : i \in DOMAIN patterns} \cap DOMAIN ws |-> ws[k]]

\* the dict run_in_docker returns
MkResult(rp, bp, collected) ==
    [stdout |-> rp.stdout, stderr |-> rp.stderr, outputs |-> collected,
     image |-> ImageTag, returncode |-> rp.returncode,
     build_stdout |-> bp.stdout, build_stderr |-> bp.stderr]

-----------------------------------------------------------------------------
(* render: the resolver's pure parts *)

\* b'0'
ZeroText == <<Line("int", 0)>>

\* int(code_s.decode('utf-8').strip()) succeeds
ParsesAsInt(c) == Len(c) = 1 /\ c[1].src = "int"

\* int(result.get('returncode') or 0)
ReturncodeOrZero(res) == IF "returncode" \in DOMAIN res THEN res.returncode ELSE 0

\* a resolver that trusts the returncode alone
ResolveExitCodeFromProcess(outputs_map, res) == ReturncodeOrZero(res)

\* exit_code: exit.code (b'0' when missing or empty) parsed, else the returncode
ResolveExitCode(outputs_map, res) ==
    LET code_s == IF Truthy(outputs_map, "exit.code")
                  THEN outputs_map["exit.code"] ELSE ZeroText
    IN IF ParsesAsInt(code_s) THEN code_s[1].n ELSE ReturncodeOrZero(res)

\* a chooser that prefers main.log
ChooseLogMainFirst(outputs_map) ==
    LET log_bytes == GetOrEmpty(outputs_map, "build.log")
        mainlog_bytes == GetOrEmpty(outputs_map, "main.log")
    IN IF Len(mainlog_bytes) > 0 THEN mainlog_bytes ELSE log_bytes

\* chosen_log = log_bytes if len(log_bytes) > 0 else mainlog_bytes
ChooseLog(outputs_map) ==
    LET log_bytes == GetOrEmpty(outputs_map, "build.log")
        mainlog_bytes == GetOrEmpty(outputs_map, "main.log")
    IN IF Len(log_bytes) > 0 THEN log_bytes ELSE mainlog_bytes

\* sorted(list(result.keys()))
ResultKeysSorted ==
    <<"build_stderr", "build_stdout", "image", "outputs", "returncode", "stderr", "stdout">>

\* a or b on two strings
StrOr(a, b) == IF a # "" THEN a ELSE b

\* the diagnostic fallback written when no log was captured
Diagnostic(code, res) ==
    LET docker_out == StrOr(res.stdout, res.build_stdout)
        docker_err == StrOr(res.stderr, res.build_stderr)
    IN <<Line("diag.nologs", 0),
         Line("diag.exit", code),
         TextLine("diag.keys", ResultKeysSorted),
         TextLine("diag.command", Cmd),
         Line("diag.hints", 0)>>
       \o (IF docker_out # "" THEN <<TextLine("diag.stdout", <<docker_out>>)>> ELSE <<>>)
       \o (IF docker_err # "" THEN <<TextLine("diag.stderr", <<docker_err>>)>> ELSE <<>>)

\* what _write_bytes(output_log, ...) receives
LogToPersist(chosen, code, res) ==
    IF Len(chosen) > 0 THEN chosen ELSE Diagnostic(code, res)

\* a test that fails only when both the status and the PDF are bad
RenderFailsBoth(code, outputs_map) == code # 0 /\ ~Truthy(outputs_map, "main.pdf")

\* if exit_code != 0 or not pdf_bytes
RenderFails(code, outputs_map) == code # 0 \/ ~Truthy(outputs_map, "main.pdf")

\* txt[-60:] of (chosen_log or b'')
LogTail(chosen) == LastN(chosen, TailLines)

\* RuntimeError(f'pdflatex failed (exit {exit_code}). See ... {tail}')
CompileError(code, chosen) ==
    [NoError EXCEPT !.kind = "RuntimeError", !.stage = "compile",
                    !.hasCode = TRUE, !.code = code, !.tail = LogTail(chosen)]

\* a TeX file saved only next to the PDF, after the build
PersistTexSkipped(files, tex) == files

\* with open(output_tex, 'w') as f: f.write(rendered_tex)
PersistTex(files, tex) == Merge(files, [k \in {"tex"} |-> tex])

\* raise FileNotFoundError(f'Template not found: ...')
TemplateMissingError ==
    [NoError EXCEPT !.kind = "FileNotFoundError", !.stage = "template"]

-----------------------------------------------------------------------------
(* Spec: one call of Renderer.render *)

XIdle ==
    /\ xin = [projects |-> <<>>, exclude |-> {}, today |-> [y |-> 0, m |-> 0, d |-> 0]]
    /\ xpc = "idle"
    /\ by_employer = EmptyMap
    /\ skill_stats = EmptyMap
    /\ experience = <<>>
    /\ skills = <<>>
    /\ metrics = [experience_years |-> 0, companies |-> 0, projects |-> 0]

\* no call of _months_between, no localizable value being resolved
MIdle == mb = [a |-> [y |-> 0, m |-> 0, d |-> 0], b |-> [y |-> 0, m |-> 0, d |-> 0],
               res |-> [some |-> FALSE, v |-> 0], pc |-> "idle"]
TrIdle == trs = [language |-> [some |-> FALSE, chars |-> <<>>],
                 v |-> [dict |-> FALSE, val |-> "None", items |-> <<>>],
                 lang |-> "", res |-> "None", pc |-> "idle"]

RInit ==
    /\ pc = "template"
    /\ tmpdir = "none"
    /\ wsFiles = EmptyMap
    /\ builds = 0
    /\ runs = 0
    /\ build_proc = NoProc
    /\ run_proc = NoProc
    /\ result = NoResult
    /\ exit_code = 0
    /\ chosen_log = <<>>
    /\ outFiles = EmptyMap
    /\ error = NoError
    /\ retval = "none"
    /\ stages = <<>>

Init == RInit /\ XIdle /\ MIdle /\ TrIdle

\* An exception leaves render.
Raise(e) ==
    /\ error' = e
    /\ pc' = "failed"

\* render: the template file must exist
CheckTemplate ==
    /\ pc = "template"
    /\ \E exists \in BOOLEAN :
         IF exists
         THEN pc' = "save_tex" /\ UNCHANGED error
         ELSE Raise(TemplateMissingError)
    /\ UNCHANGED <<tmpdir, wsFiles, builds, runs, build_proc, run_proc, result,
                   exit_code, chosen_log, outFiles, retval, stages, xvars, pvars>>

\* render: the template is rendered and the TeX saved to output_tex
SaveTex ==
    /\ pc = "save_tex"
    /\ outFiles' = PersistTex(outFiles, InputFiles["main.tex"])
    /\ pc' = "docker"
    /\ UNCHANGED <<tmpdir, wsFiles, builds, runs, build_proc, run_proc, result,
                   exit_code, chosen_log, error, retval, stages, xvars, pvars>>

\* run_in_docker: shutil.which('docker')
CheckDocker ==
    /\ pc = "docker"
    /\ stages' = Append(stages, "engine_check")
    /\ \E found \in BOOLEAN :
         IF found
         THEN pc' = "dockerfile" /\ UNCHANGED error
         ELSE Raise(DockerMissingError)
    /\ UNCHANGED <<tmpdir, wsFiles, builds, runs, build_proc, run_proc, result,
                   exit_code, chosen_log, outFiles, retval, xvars, pvars>>

\* run_in_docker: os.path.exists(df_path)
CheckDockerfile ==
    /\ pc = "dockerfile"
    /\ stages' = Append(stages, "recipe_check")
    /\ \E exists \in BOOLEAN :
         IF exists
         THEN pc' = "build" /\ UNCHANGED error
         ELSE Raise(DockerfileMissingError)
    /\ UNCHANGED <<tmpdir, wsFiles, builds, runs, build_proc, run_proc, result,
                   exit_code, chosen_log, outFiles, retval, xvars, pvars>>

\* a build that is tried a second time when the first attempt fails
BuildImageRetry ==
    /\ pc = "build"
    /\ stages' = Append(stages, "build")
    /\ builds' = builds + 1
    /\ \E rc \in ExitCodes, io \in BuildStdio :
         LET proc == [ran |-> TRUE, returncode |-> rc,
                      stdout |-> io.stdout, stderr |-> io.stderr]
         IN /\ build_proc' = proc
            /\ IF BuildFailed(proc)
               THEN IF builds = 0
                    THEN pc' = "build" /\ UNCHANGED error
                    ELSE Raise(BuildError(proc))
               ELSE pc' = "mktemp" /\ UNCHANGED error
    /\ UNCHANGED <<tmpdir, wsFiles, runs, run_proc, result,
                   exit_code, chosen_log, outFiles, retval, xvars, pvars>>

\* run_in_docker: docker build, and the check of its return code
BuildImage ==
    /\ pc = "build"
    /\ stages' = Append(stages, "build")
    /\ builds' = builds + 1
    /\ \E rc \in ExitCodes, io \in BuildStdio :
         LET proc == [ran |-> TRUE, returncode |-> rc,
                      stdout |-> io.stdout, stderr |-> io.stderr]
         IN /\ build_proc' = proc
            /\ IF BuildFailed(proc)
               THEN Raise(BuildError(proc))
               ELSE pc' = "mktemp" /\ UNCHANGED error
    /\ UNCHANGED <<tmpdir, wsFiles, runs, run_proc, result,
                   exit_code, chosen_log, outFiles, retval, xvars, pvars>>

\* run_in_docker: with tempfile.TemporaryDirectory(...) as tmpdir
MakeWorkspace ==
    /\ pc = "mktemp"
    /\ stages' = Append(stages, "workspace")
    /\ tmpdir' = "exists"
    /\ wsFiles' = EmptyMap
    /\ pc' = "write"
    /\ UNCHANGED <<builds, runs, build_proc, run_proc, result,
                   exit_code, chosen_log, outFiles, error, retval, xvars, pvars>>

\* run_in_docker: the input files are written; a write may raise after some of
\* them were written, and the exception leaves the with block
WriteInputs ==
    /\ pc = "write"
    /\ \E ok \in BOOLEAN :
         IF ok
         THEN /\ wsFiles' = Merge(wsFiles, InputFiles)
              /\ pc' = "run"
              /\ UNCHANGED <<tmpdir, error>>
         ELSE \E written \in SUBSET (DOMAIN InputFiles) :
                /\ written # DOMAIN InputFiles
                /\ tmpdir' = Cleanup(tmpdir)
                /\ wsFiles' = AfterCleanup(tmpdir', [k \in written |-> InputFiles[k]])
                /\ Raise(IOError("write"))
    /\ UNCHANGED <<builds, runs, build_proc, run_proc, result,
                   exit_code, chosen_log, outFiles, retval, stages, xvars, pvars>>

\* run_in_docker: docker run with the workspace mounted, and the check of its
\* return code; the container leaves files in the workspace
RunContainer ==
    /\ pc = "run"
    /\ stages' = Append(stages, "run")
    /\ runs' = runs + 1
    /\ \E rc \in ExitCodes, io \in RunStdio, out \in ContainerOutputs :
         LET proc == [ran |-> TRUE, returncode |-> rc,
                      stdout |-> io.stdout, stderr |-> io.stderr]
         IN /\ run_proc' = proc
            /\ IF RunFailed(proc)
               THEN /\ tmpdir' = Cleanup(tmpdir)
                    /\ wsFiles' = AfterCleanup(tmpdir', Merge(wsFiles, out))
                    /\ Raise(RunError(proc))
               ELSE /\ wsFiles' = Merge(wsFiles, out)
                    /\ pc' = "collect"
                    /\ UNCHANGED <<tmpdir, error>>
    /\ UNCHANGED <<builds, build_proc, result,
                   exit_code, chosen_log, outFiles, retval, xvars, pvars>>

\* run_in_docker: the outputs are collected and the result returned, or a read
\* raises; either way the with block is left
CollectOutputs ==
    /\ pc = "collect"
    /\ stages' = Append(stages, "collect")
    /\ tmpdir' = Cleanup(tmpdir)
    /\ wsFiles' = AfterCleanup(tmpdir', wsFiles)
    /\ \E ok \in BOOLEAN :
         IF ok
         THEN /\ result' = MkResult(run_proc, build_proc, Collect(wsFiles, Outputs))
              /\ pc' = "resolve_exit"
              /\ UNCHANGED error
         ELSE /\ Raise(IOError("collect"))
              /\ UNCHANGED result
    /\ UNCHANGED <<builds, runs, build_proc, run_proc,
                   exit_code, chosen_log, outFiles, retval, xvars, pvars>>

\* render: the exit code is resolved
ResolveExit ==
    /\ pc = "resolve_exit"
    /\ stages' = Append(stages, "resolve")
    /\ exit_code' = ResolveExitCode(result.outputs, result)
    /\ pc' = "write_log"
    /\ UNCHANGED <<tmpdir, wsFiles, builds, runs, build_proc, run_proc, result,
                   chosen_log, outFiles, error, retval, xvars, pvars>>

\* render: the log is chosen and written to output_log
WriteLog ==
    /\ pc = "write_log"
    /\ chosen_log' = ChooseLog(result.outputs)
    /\ outFiles' = Merge(outFiles,
                         [k \in {"log"} |-> LogToPersist(chosen_log', exit_code, result)])
    /\ pc' = "write_pdf"
    /\ UNCHANGED <<tmpdir, wsFiles, builds, runs, build_proc, run_proc, result,
                   exit_code, error, retval, stages, xvars, pvars>>

\* render: a non-empty main.pdf is written to output_pdf
WritePdf ==
    /\ pc = "write_pdf"
    /\ outFiles' = IF Truthy(result.outputs, "main.pdf")
                   THEN Merge(outFiles, [k \in {"pdf"} |-> result.outputs["main.pdf"]])
                   ELSE outFiles
    /\ pc' = "finish"
    /\ UNCHANGED <<tmpdir, wsFiles, builds, runs, build_proc, run_proc, result,
                   exit_code, chosen_log, error, retval, stages, xvars, pvars>>

\* render: raise with the log tail, or return output_pdf
Finish ==
    /\ pc = "finish"
    /\ IF RenderFails(exit_code, result.outputs)
       THEN Raise(CompileError(exit_code, chosen_log)) /\ UNCHANGED retval
       ELSE pc' = "done" /\ retval' = "output_pdf" /\ UNCHANGED error
    /\ UNCHANGED <<tmpdir, wsFiles, builds, runs, build_proc, run_proc, result,
                   exit_code, chosen_log, outFiles, stages, xvars, pvars>>

Next ==
    \/ CheckTemplate
    \/ SaveTex
    \/ CheckDocker
    \/ CheckDockerfile
    \/ BuildImage
    \/ MakeWorkspace
    \/ WriteInputs
    \/ RunContainer
    \/ CollectOutputs
    \/ ResolveExit
    \/ WriteLog
    \/ WritePdf
    \/ Finish

Spec == Init /\ [][Next]_vars

-----------------------------------------------------------------------------
(* expand_intermediate: values *)

\* A datetime.date, or None (y = 0).
NoneDate == [y |-> 0, m |-> 0, d |-> 0]
MkDate(y, m, d) == [y |-> y, m |-> m, d |-> d]
IsDate(dt) == dt.y # 0
DateLt(a, b) ==
    \/ a.y < b.y
    \/ a.y = b.y /\ a.m < b.m
    \/ a.y = b.y /\ a.m = b.m /\ a.d < b.d

\* An int, or None.
NoneInt == [some |-> FALSE, v |-> 0]
Some(v) == [some |-> TRUE, v |-> v]
\* x or 0
OrZero(x) == IF x.some THEN x.v ELSE 0

\* A date field of the document: None or a string.  k is the shape of the text:
\* "none" (None), "empty" (''), "sentinel" ('now', 'present', 'current',
\* 'ongoing'), "Sentinel" (the same in another case, e.g. 'Present'),
\* "ymd" (YYYY-MM-DD), "ym" (YYYY-MM), "y" (YYYY), "bad" (any other text).
NoneStr == [k |-> "none", y |-> 0, m |-> 0, d |-> 0]
DateStr(k, y, m, d) == [k |-> k, y |-> y, m |-> m, d |-> d]

IsLeap(y) == (y % 4 = 0 /\ y % 100 # 0) \/ y % 400 = 0
DaysInMonth(y, m) ==
    IF m = 2 THEN (IF IsLeap(y) THEN 28 + 1 ELSE 28)
    ELSE IF m \in {4, 6, 9, 11} THEN 30 ELSE 31

\* datetime.date(y, m, d), None when it raises ValueError
DateOrNone(y, m, d) ==
    IF y >= 1 /\ m \in 1..12 /\ d >= 1 /\ d <= DaysInMonth(y, m)
    THEN MkDate(y, m, d) ELSE NoneDate

_parse_date(s) ==
    CASE s.k = "ym" -> DateOrNone(s.y, s.m, 1)
      [] s.k = "y" -> DateOrNone(s.y, 1, 1)
      [] s.k = "ymd" -> DateOrNone(s.y, s.m, s.d)
      [] OTHER -> NoneDate

_fmt_ym(dt) == IF IsDate(dt) THEN DateStr("ym", dt.y, dt.m, 0) ELSE NoneStr

Max(a, b) == IF a >= b THEN a ELSE b

\* a difference of months that is returned as computed, without the floor at 0
MonthsBetweenUnclamped(a, b) ==
    IF ~IsDate(a) \/ ~IsDate(b) THEN NoneInt
    ELSE LET months == (b.y - a.y) * 12 + (b.m - a.m)
         IN Some(months - (IF b.d < a.d THEN 1 ELSE 0))

_months_between(a, b) ==
    IF ~IsDate(a) \/ ~IsDate(b) THEN NoneInt
    ELSE LET months == (b.y - a.y) * 12 + (b.m - a.m)
         IN Some(Max(months - (IF b.d < a.d THEN 1 ELSE 0), 0))

\* round(n / d) and round(n / d, 1) * 10 for n >= 0, d > 0: Python rounds an
\* exact tie to the even neighbour.
RoundHalfEven(n, d) ==
    LET q == n \div d
        r == n % d
    IN IF 2 * r < d THEN q
       ELSE IF 2 * r > d THEN q + 1
       ELSE IF q % 2 = 0 THEN q ELSE q + 1

\* A localizable value: a scalar, or a dict language -> value in insertion order.
Scalar(v) == [dict |-> FALSE, val |-> v, items |-> <<>>]
Localized(items) == [dict |-> TRUE, val |-> "None", items |-> items]

HasKey(items, l) == \E i \in DOMAIN items : items[i].lang = l
ValueAt(items, l) == items[CHOOSE i \in DOMAIN items : items[i].lang = l].val

\* a resolution that goes from the requested language straight to the first
\* value, without trying 'en'
TrWithoutEnglish(v, lang) ==
    IF v.dict
    THEN IF HasKey(v.items, lang) THEN ValueAt(v.items, lang)
         ELSE IF v.items # <<>> THEN v.items[1].val
         ELSE "None"
    ELSE v.val

\* A text as the sequence of its characters.
UpperLetters == <<"A", "B", "C", "D", "E", "F", "G", "H", "I", "J", "K", "L", "M",
                  "N", "O", "P", "Q", "R", "S", "T", "U", "V", "W", "X", "Y", "Z">>
LowerLetters == <<"a", "b", "c", "d", "e", "f", "g", "h", "i", "j", "k", "l", "m",
                  "n", "o", "p", "q", "r", "s", "t", "u", "v", "w", "x", "y", "z">>
IsLower(c) == \E i \in DOMAIN LowerLetters : LowerLetters[i] = c
Whitespace == {" ", "\t", "\n"}

\* str.lower()
LowerChar(c) ==
    IF \E i \in DOMAIN UpperLetters : UpperLetters[i] = c
    THEN LowerLetters[CHOOSE i \in DOMAIN UpperLetters : UpperLetters[i] = c]
    ELSE c
Lower(s) == [i \in DOMAIN s |-> LowerChar(s[i])]

RECURSIVE LStrip(_)
LStrip(s) == IF s # <<>> /\ Head(s) \in Whitespace THEN LStrip(Tail(s)) ELSE s
RECURSIVE RStrip(_)
RStrip(s) ==
    IF s # <<>> /\ s[Len(s)] \in Whitespace THEN RStrip(SubSeq(s, 1, Len(s) - 1)) ELSE s
\* str.strip()
Strip(s) == RStrip(LStrip(s))

\* str.replace('_', '-')
ReplaceUnderscore(s) == [i \in DOMAIN s |-> IF s[i] = "_" THEN "-" ELSE s[i]]

\* raw_lang = getattr(self, 'language', None) or 'en'
RawLang(language) ==
    IF language.some /\ language.chars # <<>> THEN language.chars ELSE <<"e", "n">>

\* lang: re.match('^([a-z]{2})', s) on the stripped, lowered text, else 'en'
ResolveLang(language) ==
    LET s == ReplaceUnderscore(Lower(Strip(RawLang(language))))
    IN IF Len(s) >= 2 /\ IsLower(s[1]) /\ IsLower(s[2]) THEN s[1] \o s[2] ELSE "en"

tr(v, lang) ==
    IF v.dict
    THEN IF HasKey(v.items, lang) THEN ValueAt(v.items, lang)
         ELSE IF HasKey(v.items, "en") THEN ValueAt(v.items, "en")
         ELSE IF v.items # <<>> THEN v.items[1].val
         ELSE "None"
    ELSE v.val

-----------------------------------------------------------------------------
(* expand_intermediate: the document *)

\* lang: the two-letter code resolved from self.language
Lang == "en"

\* raw['skills']['registry']: s3 is used in a group but has no registry entry
Registry ==
    [k \in {"s1", "s2"} |->
        IF k = "s1"
        THEN [name |-> Localized(<<[lang |-> "ru", val |-> "s1-ru"],
                                   [lang |-> "en", val |-> "s1-en"]>>), level |-> 3]
        ELSE [name |-> Scalar("s2-name"), level |-> 2]]

\* raw['skills']['groups']
GroupsRaw == <<[id |-> "g1", name |-> Scalar("g1"), items |-> <<"s1", "s2", "s3">>]>>

\* raw['employers'], in insertion order; e3 has no project, and the key "ex"
\* that projects may reference is not declared
EmployersRaw ==
    <<[key |-> "e1", name |-> Scalar("e1"),
       roles |-> <<[title |-> Scalar("")], [title |-> Scalar("engineer")]>>],
      [key |-> "e2", name |-> Scalar("e2"), roles |-> <<>>],
      [key |-> "e3", name |-> Scalar("e3"), roles |-> <<>>]>>

-----------------------------------------------------------------------------
(* expand_intermediate: the project loop *)

\* meta = registry.get(str(sid)) or {}; one skill item
SkillItem(sid, lang) ==
    [id |-> sid,
     name |-> IF sid \in DOMAIN Registry THEN tr(Registry[sid].name, lang) ELSE sid,
     level |-> IF sid \in DOMAIN Registry THEN Registry[sid].level ELSE 0,
     highlight |-> FALSE]

_skill_items_from_ids(ids, lang) == [i \in DOMAIN ids |-> SkillItem(ids[i], lang)]

\* a loop that never looks at the exclusion set
ExcludedNever(pid, exclude_projects) == FALSE

\* if pid in exclude_projects: continue
Excluded(pid, exclude_projects) == pid \in exclude_projects

\* if not emp_key: continue
NoEmployer(emp_key) == emp_key \in {"None", ""}

\* pr.get('end') in (None, '', 'now', 'present', 'current', 'ongoing')
InOngoingLiterals(s) == s.k \in {"none", "empty", "sentinel"}

\* pe_raw or today
EndOrToday(pe_raw, today) == IF IsDate(pe_raw) THEN pe_raw ELSE today

\* 'end': None if ongoing else _fmt_ym(pe_raw)
StoredEnd(ongoing, pe_raw) == IF ongoing THEN NoneStr ELSE _fmt_ym(pe_raw)

\* entry = {...}
ProjectEntry(pr, today, lang) ==
    LET ps == _parse_date(pr.start)
        pe_raw == _parse_date(pr.end)
        ongoing == InOngoingLiterals(pr.end) \/ ~IsDate(pe_raw)
        pe_for_duration == EndOrToday(pe_raw, today)
    IN [name |-> tr(pr.name, lang),
        start |-> IF IsDate(ps) THEN _fmt_ym(ps) ELSE NoneStr,
        end |-> StoredEnd(ongoing, pe_raw),
        duration_months |-> _months_between(ps, pe_for_duration),
        skills |-> _skill_items_from_ids(pr.skills, lang)]

NewStat == [months |-> 0, first |-> NoneDate, last |-> NoneDate]

\* an accumulator that keeps the last project's months instead of adding them
AccumulateOneOverwrite(stats, sid, ps, pe_raw, pr_months, today) ==
    Merge(stats, [k \in {sid} |->
                    [months |-> pr_months, first |-> ps, last |-> EndOrToday(pe_raw, today)]])

\* one pass of "for sid in pr.get('skills')" for one sid
AccumulateOne(stats, sid, ps, pe_raw, pr_months, today) ==
    LET st == IF sid \in DOMAIN stats THEN stats[sid] ELSE NewStat
        end_for_last == EndOrToday(pe_raw, today)
        first == IF IsDate(ps)
                 THEN (IF ~IsDate(st.first) \/ DateLt(ps, st.first) THEN ps ELSE st.first)
                 ELSE st.first
        last == IF IsDate(end_for_last)
                THEN (IF ~IsDate(st.last) \/ DateLt(st.last, end_for_last)
                      THEN end_for_last ELSE st.last)
                ELSE st.last
    IN Merge(stats, [k \in {sid} |->
                       [months |-> st.months + pr_months, first |-> first, last |-> last]])

RECURSIVE AccumulateSkills(_, _, _, _, _, _, _)
AccumulateSkills(stats, sids, i, ps, pe_raw, pr_months, today) ==
    IF i > Len(sids) THEN stats
    ELSE AccumulateSkills(AccumulateOne(stats, sids[i], ps, pe_raw, pr_months, today),
                          sids, i + 1, ps, pe_raw, pr_months, today)

\* by_employer.setdefault(emp_key, []).append(entry)
AppendEntry(by_emp, emp_key, entry) ==
    Merge(by_emp, [k \in {emp_key} |->
                     Append(IF emp_key \in DOMAIN by_emp THEN by_emp[emp_key] ELSE <<>>,
                            entry)])

\* for pid, pr in projects_raw.items(): ...
RECURSIVE ProjectLoop(_, _, _, _, _, _)
ProjectLoop(projects, i, exclude_projects, today, lang, acc) ==
    IF i > Len(projects) THEN acc
    ELSE LET pr == projects[i]
             ps == _parse_date(pr.start)
             pe_raw == _parse_date(pr.end)
             pr_months == OrZero(_months_between(ps, EndOrToday(pe_raw, today)))
         IN IF Excluded(pr.id, exclude_projects) \/ NoEmployer(pr.employer)
            THEN ProjectLoop(projects, i + 1, exclude_projects, today, lang, acc)
            ELSE ProjectLoop(projects, i + 1, exclude_projects, today, lang,
                   [by_employer |-> AppendEntry(acc.by_employer, pr.employer,
                                                ProjectEntry(pr, today, lang)),
                    skill_stats |-> AccumulateSkills(acc.skill_stats, pr.skills, 1,
                                                     ps, pe_raw, pr_months, today)])

GroupProjects(projects, exclude_projects, today, lang) ==
    ProjectLoop(projects, 1, exclude_projects, today, lang,
                [by_employer |-> EmptyMap, skill_stats |-> EmptyMap])

-----------------------------------------------------------------------------
(* expand_intermediate: employers -> experience *)

\* truthiness of a stored 'start' / 'end' (None or a string)
StrTruthy(s) == s.k \notin {"none", "empty"}

RECURSIVE ParsedTruthy(_, _, _)
\* [_parse_date(p.get(f)) for p in projects if p.get(f)]
ParsedTruthy(projects, f, i) ==
    IF i > Len(projects) THEN <<>>
    ELSE (IF StrTruthy(projects[i][f]) THEN <<_parse_date(projects[i][f])>> ELSE <<>>)
         \o ParsedTruthy(projects, f, i + 1)

DatesOf(dates) == {dates[i] : i \in {j \in DOMAIN dates : IsDate(dates[j])}}
\* min(...) and max(...) of a non-empty list of dates
MinDate(S) == CHOOSE x \in S : \A z \in S : ~DateLt(z, x)
MaxDate(S) == CHOOSE x \in S : \A z \in S : ~DateLt(x, z)

\* an employer end taken from the concrete ends alone
AnyOngoingIgnored(projects) == FALSE

\* any(p.get('end') in (None, '',) for p in projects)
AnyOngoing(projects) ==
    \E i \in DOMAIN projects : projects[i].end.k \in {"none", "empty"}

\* the first non-empty translated role title
RECURSIVE RoleTitle(_, _, _)
RoleTitle(roles, i, lang) ==
    IF i > Len(roles) THEN "None"
    ELSE LET rt == tr(roles[i].title, lang)
         IN IF rt \notin {"None", ""} THEN rt ELSE RoleTitle(roles, i + 1, lang)

RECURSIVE AddKeywords(_, _, _)
AddKeywords(keywords, items, i) ==
    IF i > Len(items) THEN keywords
    ELSE LET nm == items[i].name
         IN AddKeywords(IF nm \notin {"None", ""}
                           /\ ~\E j \in DOMAIN keywords : keywords[j] = nm
                        THEN Append(keywords, nm) ELSE keywords,
                        items, i + 1)

RECURSIVE Keywords(_, _, _)
Keywords(projects, i, keywords) ==
    IF i > Len(projects) THEN keywords
    ELSE Keywords(projects, i + 1, AddKeywords(keywords, projects[i].skills, 1))

\* an employer loop that keeps employers without projects
SkipEmployerNever(projects) == FALSE

\* if not projects: continue
SkipEmployer(projects) == projects = <<>>

\* one employer's experience entry
EmployerEntry(emp, projects, today, lang) ==
    LET start_dates == ParsedTruthy(projects, "start", 1)
        end_dates_raw == ParsedTruthy(projects, "end", 1)
        any_ongoing == AnyOngoing(projects)
        emp_start == IF start_dates # <<>> THEN MinDate(DatesOf(start_dates)) ELSE NoneDate
        unbounded == any_ongoing \/ end_dates_raw = <<>>
        filtered == DatesOf(end_dates_raw)
        emp_end == IF unbounded THEN NoneDate
                   ELSE IF filtered # {} THEN MaxDate(filtered) ELSE NoneDate
        end_for_duration == IF unbounded THEN today ELSE EndOrToday(emp_end, today)
    IN [employer |-> tr(emp.name, lang),
        role |-> RoleTitle(emp.roles, 1, lang),
        start |-> IF IsDate(emp_start) THEN _fmt_ym(emp_start) ELSE NoneStr,
        end |-> IF IsDate(emp_end) THEN _fmt_ym(emp_end) ELSE NoneStr,
        duration_months |-> _months_between(emp_start, end_for_duration),
        keywords |-> Keywords(projects, 1, <<>>),
        projects |-> projects]

\* for ekey, emp in employers_raw.items(): ...
RECURSIVE EmployerLoop(_, _, _, _, _)
EmployerLoop(employers, i, by_emp, today, lang) ==
    IF i > Len(employers) THEN <<>>
    ELSE LET emp == employers[i]
             projects == IF emp.key \in DOMAIN by_emp THEN by_emp[emp.key] ELSE <<>>
         IN (IF SkipEmployer(projects) THEN <<>>
             ELSE <<EmployerEntry(emp, projects, today, lang)>>)
            \o EmployerLoop(employers, i + 1, by_emp, today, lang)

\* a key that puts today in place of an absent start, whatever the end is
SortKeyStartToday(e, today) ==
    LET end_d == EndOrToday(_parse_date(e.end), today)
        start_d == EndOrToday(_parse_date(e.start), today)
    IN <<-end_d.y, -end_d.m, -start_d.y, -start_d.m>>

\* (-end_d.year, -end_d.month, -start_d.year, -start_d.month)
_sort_key(e, today) ==
    LET end_d == EndOrToday(_parse_date(e.end), today)
        start_d == EndOrToday(_parse_date(e.start), end_d)
    IN <<-end_d.y, -end_d.m, -start_d.y, -start_d.m>>

\* tuple comparison a < b
RECURSIVE TupleLt(_, _, _)
TupleLt(a, b, i) ==
    IF i > Len(a) THEN FALSE
    ELSE IF a[i] < b[i] THEN TRUE
    ELSE IF a[i] > b[i] THEN FALSE
    ELSE TupleLt(a, b, i + 1)

\* insert e after every element whose key is not greater: a stable sort
RECURSIVE InsertSorted(_, _, _)
InsertSorted(sorted, e, today) ==
    IF sorted = <<>> THEN <<e>>
    ELSE IF TupleLt(_sort_key(e, today), _sort_key(Head(sorted), today), 1)
         THEN <<e>> \o sorted
         ELSE <<Head(sorted)>> \o InsertSorted(Tail(sorted), e, today)

\* experience.sort(key=_sort_key)
RECURSIVE SortExperience(_, _, _)
SortExperience(exp, i, today) ==
    IF i = 0 THEN <<>>
    ELSE InsertSorted(SortExperience(exp, i - 1, today), exp[i], today)

BuildExperience(employers, by_emp, today, lang) ==
    LET unsorted == EmployerLoop(employers, 1, by_emp, today, lang)
    IN SortExperience(unsorted, Len(unsorted), today)

-----------------------------------------------------------------------------
(* expand_intermediate: skills and metrics *)

\* skills.append({'id', 'group', 'items'}) for each group
BuildSkills(groups, lang) ==
    [g \in DOMAIN groups |->
        [id |-> groups[g].id,
         group |-> tr(groups[g].name, lang),
         items |-> _skill_items_from_ids(groups[g].items, lang)]]

\* the usage fields put on one skill item
Annotation(it, stats) ==
    LET st == IF it.id \in DOMAIN stats THEN stats[it.id] ELSE NewStat
    IN [id |-> it.id, name |-> it.name, level |-> it.level, highlight |-> it.highlight,
        months |-> st.months,
        years_tenths |-> RoundHalfEven(st.months * 10, 12),
        first_used |-> IF IsDate(st.first) THEN _fmt_ym(st.first) ELSE NoneStr,
        last_used |-> IF IsDate(st.last) THEN _fmt_ym(st.last) ELSE NoneStr]

AnnotateSkills(skill_groups, stats) ==
    [g \in DOMAIN skill_groups |->
        [id |-> skill_groups[g].id,
         group |-> skill_groups[g].group,
         items |-> [i \in DOMAIN skill_groups[g].items |->
                       Annotation(skill_groups[g].items[i], stats)]]]

\* all projects of the experience list, in order
RECURSIVE AllProjects(_, _)
AllProjects(exp, i) ==
    IF i > Len(exp) THEN <<>> ELSE exp[i].projects \o AllProjects(exp, i + 1)

RECURSIVE MetricsLoop(_, _, _, _)
MetricsLoop(ps_list, i, today, acc) ==
    IF i > Len(ps_list) THEN acc
    ELSE LET ps == _parse_date(ps_list[i].start)
             pe == _parse_date(ps_list[i].end)
             pe_span == EndOrToday(pe, today)
         IN MetricsLoop(ps_list, i + 1, today,
              [total_projects |-> acc.total_projects + 1,
               earliest_start |->
                  IF IsDate(ps) /\ (~IsDate(acc.earliest_start)
                                    \/ DateLt(ps, acc.earliest_start))
                  THEN ps ELSE acc.earliest_start,
               latest_end |->
                  IF IsDate(pe_span) /\ (~IsDate(acc.latest_end)
                                         \/ DateLt(acc.latest_end, pe_span))
                  THEN pe_span ELSE acc.latest_end])

ComputeMetrics(exp, today) ==
    LET acc == MetricsLoop(AllProjects(exp, 1), 1, today,
                           [total_projects |-> 0, earliest_start |-> NoneDate,
                            latest_end |-> NoneDate])
        months_total == OrZero(_months_between(acc.earliest_start, acc.latest_end))
    IN [experience_years |-> Max(RoundHalfEven(months_total, 12), 0),
        companies |-> Len(exp),
        projects |-> acc.total_projects]

-----------------------------------------------------------------------------
(* SpecExpand: one call of expand_intermediate *)

\* datetime.date.today()
Today == MkDate(2024, 6, 15)

ProjectIds == <<"p1", "p2", "p3", "p4">>

\* a project's start and end fields
ClosedDates ==
    {[start |-> DateStr("ym", 2021, 1, 0), end |-> DateStr("ym", 2021, 7, 0)],
     [start |-> DateStr("ym", 2022, 1, 0), end |-> DateStr("ymd", 2022, 5, 10)],
     [start |-> DateStr("ym", 2022, 1, 0), end |-> DateStr("ym", 2021, 7, 0)]}
OpenDates ==
    {[start |-> DateStr("ym", 2020, 1, 0), end |-> NoneStr],
     [start |-> DateStr("ymd", 2023, 3, 20), end |-> DateStr("sentinel", 0, 0, 0)],
     [start |-> NoneStr, end |-> DateStr("empty", 0, 0, 0)],
     [start |-> DateStr("ym", 2020, 1, 0), end |-> DateStr("bad", 0, 0, 0)],
     [start |-> DateStr("ymd", 2023, 3, 20), end |-> DateStr("Sentinel", 0, 0, 0)]}
DateChoices == ClosedDates \cup OpenDates
FewDates == {[start |-> DateStr("ym", 2021, 1, 0), end |-> DateStr("ym", 2021, 7, 0)],
             [start |-> DateStr("ym", 2020, 1, 0), end |-> NoneStr]}

\* what one project of the document can be: its employer field is missing
\* ("None"), empty, a declared key ("e1", "e2") or an undeclared one ("ex")
ProjectChoices ==
    ({"None", "", "ex"} \X FewDates \X {<<"s1">>})
    \cup ({"e1"} \X DateChoices \X {<<"s1">>, <<"s2", "s1">>})
    \cup ({"e2"} \X DateChoices \X {<<"s2", "s1">>})

\* getattr(self, 'exclude_projects', [])
ExcludeChoices == {{}, {"p1"}, {"p2", "zz"}}

MkProject(i, c) ==
    [id |-> ProjectIds[i], employer |-> c[1], name |-> Scalar(ProjectIds[i]),
     start |-> c[2].start, end |-> c[2].end, skills |-> c[3]]

\* raw['projects'], in insertion order
ProjectLists ==
    {[i \in 1..MaxProjects |-> MkProject(i, c[i])] :
        c \in [1..MaxProjects -> ProjectChoices]}

RIdle == RInit

XInit ==
    /\ xin \in {[projects |-> ps, exclude |-> ex, today |-> Today] :
                   ps \in ProjectLists, ex \in ExcludeChoices}
    /\ xpc = "projects"
    /\ by_employer = EmptyMap
    /\ skill_stats = EmptyMap
    /\ experience = <<>>
    /\ skills = <<>>
    /\ metrics = [experience_years |-> 0, companies |-> 0, projects |-> 0]

InitExpand == RIdle /\ XInit /\ MIdle /\ TrIdle

\* the loop over projects_raw
XProjects ==
    /\ xpc = "projects"
    /\ LET r == GroupProjects(xin.projects, xin.exclude, xin.today, Lang)
       IN /\ by_employer' = r.by_employer
          /\ skill_stats' = r.skill_stats
    /\ skills' = BuildSkills(GroupsRaw, Lang)
    /\ xpc' = "experience"
    /\ UNCHANGED <<xin, experience, metrics, rvars, pvars>>

\* the loop over employers_raw, and the sort
XExperience ==
    /\ xpc = "experience"
    /\ experience' = BuildExperience(EmployersRaw, by_employer, xin.today, Lang)
    /\ xpc' = "annotate"
    /\ UNCHANGED <<xin, by_employer, skill_stats, skills, metrics, rvars, pvars>>

\* the skill items get their usage data
XAnnotate ==
    /\ xpc = "annotate"
    /\ skills' = AnnotateSkills(skills, skill_stats)
    /\ xpc' = "metrics"
    /\ UNCHANGED <<xin, by_employer, skill_stats, experience, metrics, rvars, pvars>>

\* the metrics, and the return
XMetrics ==
    /\ xpc = "metrics"
    /\ metrics' = ComputeMetrics(experience, xin.today)
    /\ xpc' = "done"
    /\ UNCHANGED <<xin, by_employer, skill_stats, experience, skills, rvars, pvars>>

NextExpand ==
    \/ XProjects
    \/ XExperience
    \/ XAnnotate
    \/ XMetrics

SpecExpand == InitExpand /\ [][NextExpand]_vars

-----------------------------------------------------------------------------
(* SpecSort: expand_intermediate on documents whose employers differ in their
   spans *)

\* a project's start and end fields: ongoing, ended in today's month, ending
\* after today, without a start, ending before its start, ended long ago
SortDates ==
    {[start |-> DateStr("ym", 2020, 1, 0), end |-> NoneStr],
     [start |-> DateStr("ymd", 2023, 3, 20), end |-> DateStr("ym", 2024, 6, 0)],
     [start |-> DateStr("ym", 2024, 1, 0), end |-> DateStr("ym", 2025, 1, 0)],
     [start |-> NoneStr, end |-> DateStr("ym", 2021, 7, 0)],
     [start |-> NoneStr, end |-> NoneStr],
     [start |-> DateStr("ym", 2022, 1, 0), end |-> DateStr("ym", 2021, 7, 0)],
     [start |-> DateStr("ym", 2021, 1, 0), end |-> DateStr("ym", 2021, 7, 0)],
     [start |-> DateStr("ym", 2022, 1, 0), end |-> DateStr("ymd", 2022, 5, 10)]}

SortChoices == {"e1", "e2", "e3"} \X SortDates \X {<<"s1">>}

SortLists ==
    {[i \in 1..MaxProjects |-> MkProject(i, c[i])] :
        c \in [1..MaxProjects -> SortChoices]}

XInitSort ==
    /\ xin \in {[projects |-> ps, exclude |-> {}, today |-> Today] : ps \in SortLists}
    /\ xpc = "projects"
    /\ by_employer = EmptyMap
    /\ skill_stats = EmptyMap
    /\ experience = <<>>
    /\ skills = <<>>
    /\ metrics = [experience_years |-> 0, companies |-> 0, projects |-> 0]

InitSort == RIdle /\ XInitSort /\ MIdle /\ TrIdle

SpecSort == InitSort /\ [][NextExpand]_vars

-----------------------------------------------------------------------------
(* SpecMonths: one call of _months_between *)

\* the arguments: dates of MaxYearSpan + 1 years, or None
MonthsDates ==
    {MkDate(y, m, d) : y \in 2020 .. (2020 + MaxYearSpan), m \in {1, 2, 12}, d \in {1, 15, 28}}
        \cup {NoneDate}

MInit == mb \in {[a |-> a, b |-> b, res |-> NoneInt, pc |-> "call"] :
                    a \in MonthsDates, b \in MonthsDates}

InitMonths == RIdle /\ XIdle /\ MInit /\ TrIdle

\* return _months_between(a, b)
MonthsBetween ==
    /\ mb.pc = "call"
    /\ mb' = [mb EXCEPT !.res = _months_between(mb.a, mb.b), !.pc = "done"]
    /\ UNCHANGED <<rvars, xvars, trs>>

NextMonths == MonthsBetween

SpecMonths == InitMonths /\ [][NextMonths]_vars

-----------------------------------------------------------------------------
(* SpecTr: the language is resolved, then one value is passed to tr *)

\* self.language: None, or a text of at most MaxLangLen of these characters,
\* or one of a few longer texts
LangAlphabet == {"r", "u", "R", "_", " "}
LangTexts ==
    UNION {[1 .. n -> LangAlphabet] : n \in 0 .. MaxLangLen}
        \cup {<<"e", "n", "-", "U", "S">>, <<" ", "F", "R", "_", "f", "r", " ">>,
              <<"p", "1">>, <<"r", " ", "u">>}
Languages ==
    {[some |-> FALSE, chars |-> <<>>]} \cup {[some |-> TRUE, chars |-> t] : t \in LangTexts}

\* the value passed to tr: a scalar, None, or a dict of at most MaxKeys languages
TrKeys == {"fr", "en", "ru", "RU"}
TrValue == [fr |-> "X", en |-> "Y", ru |-> "Z", RU |-> "W"]
TrKeyLists ==
    {ks \in UNION {[1 .. n -> TrKeys] : n \in 0 .. MaxKeys} :
        \A i, j \in DOMAIN ks : i # j => ks[i] # ks[j]}
TrValues ==
    {Scalar("plain"), Scalar("None")}
        \cup {Localized([i \in DOMAIN ks |-> [lang |-> ks[i], val |-> TrValue[ks[i]]]]) :
                 ks \in TrKeyLists}

TrInit == trs \in {[language |-> l, v |-> v, lang |-> "", res |-> "None", pc |-> "lang"] :
                      l \in Languages, v \in TrValues}

InitTr == RIdle /\ XIdle /\ MIdle /\ TrInit

\* lang is resolved from self.language
TrResolveLang ==
    /\ trs.pc = "lang"
    /\ trs' = [trs EXCEPT !.lang = ResolveLang(trs.language), !.pc = "tr"]
    /\ UNCHANGED <<rvars, xvars, mb>>

\* return tr(v)
TrCall ==
    /\ trs.pc = "tr"
    /\ trs' = [trs EXCEPT !.res = tr(trs.v, trs.lang), !.pc = "done"]
    /\ UNCHANGED <<rvars, xvars, mb>>

NextTr ==
    \/ TrResolveLang
    \/ TrCall

SpecTr == InitTr /\ [][NextTr]_vars

-----------------------------------------------------------------------------
(* Claims about render and run_in_docker, checked under Spec *)

InSandboxCall == pc \in {"docker", "dockerfile", "build", "mktemp", "write", "run", "collect"}
Resolved == pc \in {"write_log", "write_pdf", "finish", "done"} \/ error.stage = "compile"
LogWritten == pc \in {"write_pdf", "finish", "done"} \/ error.stage = "compile"
Failed(stage) == pc = "failed" /\ error.stage = stage

\* C1: once run_in_docker has ended (by return, by a failed run, or by an
\* exception while writing inputs or collecting outputs) the workspace
\* directory does not exist and holds no file.
C1_WorkspaceRemoved ==
    ~InSandboxCall => (tmpdir # "exists" /\ wsFiles = EmptyMap)

C1_Witness ==
    /\ Failed("collect")
    /\ tmpdir = "removed"
    /\ runs = 1

\* C2: a build that exits nonzero raises an error carrying that exit code and
\* the build's stdout and stderr, and then no workspace was created, no input
\* file written and the run command never started.
C2_BuildFailure ==
    (build_proc.ran /\ build_proc.returncode # 0) =>
        /\ Failed("build")
        /\ error.hasCode /\ error.code = build_proc.returncode
        /\ error.stdout = build_proc.stdout
        /\ error.stderr = build_proc.stderr
        /\ tmpdir = "none"
        /\ wsFiles = EmptyMap
        /\ runs = 0 /\ ~run_proc.ran

C2_Witness ==
    /\ Failed("build")
    /\ error.code = 2
    /\ error.stdout = "build-out"
    /\ tmpdir = "none"

\* C3: render returns the artifact path exactly when the resolved exit status
\* is 0 and main.pdf was collected non-empty; with any other combination it
\* raises.
C3_SuccessIff ==
    LET good == exit_code = 0 /\ "main.pdf" \in DOMAIN result.outputs
                              /\ Len(result.outputs["main.pdf"]) > 0
    IN /\ pc = "done" => (good /\ retval = "output_pdf" /\ error = NoError)
       /\ Failed("compile") => (~good /\ retval = "none")
       /\ (pc = "done" \/ Failed("compile")) => (pc = "done" <=> good)

C3_Witness ==
    /\ Failed("compile")
    /\ exit_code # 0
    /\ Truthy(result.outputs, "main.pdf")

\* C4: the resolved exit status is the integer in exit.code when that file was
\* collected and parses; when the file is missing, empty or unparsable it is
\* the return code of the docker run.
C4_ExitFallback ==
    Resolved =>
        LET m == result.outputs
            parses == "exit.code" \in DOMAIN m /\ Len(m["exit.code"]) = 1
                      /\ m["exit.code"][1].src = "int"
        IN IF parses THEN exit_code = m["exit.code"][1].n
                     ELSE exit_code = run_proc.returncode

C4_Witness ==
    /\ Resolved
    /\ "exit.code" \in DOMAIN result.outputs
    /\ result.outputs["exit.code"] = <<Line("int", 2)>>
    /\ run_proc.returncode = 0
    /\ exit_code = 2

HasLine(log, l) == \E i \in DOMAIN log : log[i] = l

\* C5: the persisted log is build.log verbatim when non-empty, else main.log
\* verbatim when non-empty, else a diagnostic report that states that no logs
\* were captured, the resolved exit code, the available keys, the command and
\* the captured stdout/stderr.
C5_LogPreference ==
    LogWritten =>
        LET m == result.outputs
            b == IF "build.log" \in DOMAIN m THEN m["build.log"] ELSE <<>>
            ml == IF "main.log" \in DOMAIN m THEN m["main.log"] ELSE <<>>
            log == outFiles["log"]
        IN /\ "log" \in DOMAIN outFiles
           /\ b # <<>> => log = b
           /\ (b = <<>> /\ ml # <<>>) => log = ml
           /\ (b = <<>> /\ ml = <<>>) =>
                /\ HasLine(log, Line("diag.nologs", 0))
                /\ HasLine(log, Line("diag.exit", exit_code))
                /\ \E i \in DOMAIN log :
                      /\ log[i].src = "diag.keys"
                      /\ {log[i].txt[j] : j \in DOMAIN log[i].txt} = DOMAIN result
                /\ HasLine(log, TextLine("diag.command", Cmd))
                /\ run_proc.stdout # "" =>
                      HasLine(log, TextLine("diag.stdout", <<run_proc.stdout>>))
                /\ run_proc.stderr # "" =>
                      HasLine(log, TextLine("diag.stderr", <<run_proc.stderr>>))
                /\ (run_proc.stdout = "" /\ build_proc.stdout # "") =>
                      HasLine(log, TextLine("diag.stdout", <<build_proc.stdout>>))
                /\ (run_proc.stderr = "" /\ build_proc.stderr # "") =>
                      HasLine(log, TextLine("diag.stderr", <<build_proc.stderr>>))

C5_Witness ==
    /\ LogWritten
    /\ "build.log" \in DOMAIN result.outputs
    /\ result.outputs["build.log"] = <<>>
    /\ Truthy(result.outputs, "main.log")
    /\ outFiles["log"] = result.outputs["main.log"]

\* C6: when render fails in the resolver, the error embeds the last 60 lines
\* of the content that was persisted to the log file.
C6_TailOfPersistedLog ==
    Failed("compile") => error.tail = LastN(outFiles["log"], TailLines)

\* C7 as claimed: when a render that has saved its TeX fails in a later stage,
\* both the TeX file and the log file are persisted.
C7_TexAndLogPersisted ==
    (pc = "failed" /\ error.stage # "template") =>
        ("tex" \in DOMAIN outFiles /\ "log" \in DOMAIN outFiles)

\* C7 amended: on every failure after the TeX was produced the TeX file is
\* persisted; the log file is persisted exactly when the failure is the
\* resolver's compile failure, and on no failure of run_in_docker.
C7_TexPersistedLogOnlyOnCompile ==
    (pc = "failed" /\ error.stage # "template") =>
        /\ "tex" \in DOMAIN outFiles
        /\ outFiles["tex"] = InputFiles["main.tex"]
        /\ "log" \in DOMAIN outFiles <=> error.stage = "compile"

C7_Witness ==
    /\ Failed("run")
    /\ "tex" \in DOMAIN outFiles
    /\ "log" \notin DOMAIN outFiles

-----------------------------------------------------------------------------
(* Claims about expand_intermediate, checked under SpecExpand *)

Dropped(pr) == pr.id \in xin.exclude \/ pr.employer \in {"None", ""}
IsRetained(pr) == ~Dropped(pr)
Retained == SelectSeq(xin.projects, IsRetained)
DeclaredKeys == {EmployersRaw[i].key : i \in DOMAIN EmployersRaw}
ProjectIndices == DOMAIN xin.projects

\* the experience entry of employer k (employer names are their keys here)
HasEntry(k) == \E e \in DOMAIN experience : experience[e].employer = k
\* project pid (project names are their ids here) is listed under some entry
Listed(pid) ==
    \E e \in DOMAIN experience :
        \E j \in DOMAIN experience[e].projects : experience[e].projects[j].name = pid

\* C8: a project that is excluded by id or has no employer reference is in no
\* experience entry's project list, and skill usage, experience and metrics
\* are what they are for the document without these projects; metrics.projects
\* counts retained projects only.
C8_DroppedContributeNothing ==
    xpc = "done" =>
        LET r == GroupProjects(Retained, {}, xin.today, Lang)
            exp == BuildExperience(EmployersRaw, r.by_employer, xin.today, Lang)
        IN /\ \A i \in ProjectIndices :
                 Dropped(xin.projects[i]) => ~Listed(xin.projects[i].id)
           /\ skill_stats = r.skill_stats
           /\ skills = AnnotateSkills(BuildSkills(GroupsRaw, Lang), r.skill_stats)
           /\ experience = exp
           /\ metrics = ComputeMetrics(exp, xin.today)
           /\ metrics.projects =
                 Cardinality({i \in ProjectIndices : /\ IsRetained(xin.projects[i])
                                                      /\ Listed(xin.projects[i].id)})

C8_Witness ==
    /\ xpc = "done"
    /\ xin.exclude = {"p1"}
    /\ xin.projects[1].employer = "e1"
    /\ xin.projects[2].employer = "e1"
    /\ xin.projects[1].skills = <<"s1">>
    /\ xin.projects[2].skills = <<"s2", "s1">>
    /\ xin.projects[1].start = DateStr("ym", 2020, 1, 0)
    /\ xin.projects[2].start = DateStr("ym", 2021, 1, 0)
    /\ skill_stats["s1"].months = 6
    /\ metrics.projects = 1

\* C9 as claimed: every employer key, declared or only referenced by a
\* project, has an experience entry exactly when a retained project references it.
C9_EntryIffRetainedAnyKey ==
    xpc = "done" =>
        \A k \in (DeclaredKeys \cup {xin.projects[i].employer : i \in ProjectIndices})
                 \ {"None", ""} :
            HasEntry(k) <=>
                \E i \in ProjectIndices :
                    IsRetained(xin.projects[i]) /\ xin.projects[i].employer = k

\* C9 amended: an employer key declared in the registry has an experience
\* entry exactly when a retained project references it, and a key that is not
\* declared has none.
C9_EntryIffRetainedDeclared ==
    xpc = "done" =>
        /\ \A k \in DeclaredKeys :
              HasEntry(k) <=>
                  \E i \in ProjectIndices :
                      IsRetained(xin.projects[i]) /\ xin.projects[i].employer = k
        /\ \A e \in DOMAIN experience : experience[e].employer \in DeclaredKeys
        /\ \A e1 \in DOMAIN experience, e2 \in DOMAIN experience :
              experience[e1].employer = experience[e2].employer => e1 = e2

C9_Witness ==
    /\ xpc = "done"
    /\ xin.exclude = {"p1"}
    /\ xin.projects[1].employer = "e1"
    /\ xin.projects[2].employer = "e2"
    /\ ~HasEntry("e1")
    /\ HasEntry("e2")

\* the end field is unbounded: absent, empty, a sentinel in any case, or
\* text that is no date
UnboundedEnd(s) == s.k \in {"none", "empty", "sentinel", "Sentinel", "bad"}

\* C10: a retained project with an unbounded end is stored with end None and a
\* duration computed up to today, and its employer's experience entry has end
\* None and a duration computed up to today, whatever its sibling projects are.
C10_UnboundedEnd ==
    xpc = "done" =>
        \A i \in ProjectIndices :
            LET pr == xin.projects[i]
            IN (IsRetained(pr) /\ UnboundedEnd(pr.end)) =>
                 /\ \E j \in DOMAIN by_employer[pr.employer] :
                       LET en == by_employer[pr.employer][j]
                       IN /\ en.name = pr.id
                          /\ en.end = NoneStr
                          /\ en.duration_months =
                                _months_between(_parse_date(pr.start), xin.today)
                 /\ \A e \in DOMAIN experience :
                       experience[e].employer = pr.employer =>
                          /\ experience[e].end = NoneStr
                          /\ experience[e].duration_months =
                                _months_between(_parse_date(experience[e].start),
                                                xin.today)

C10_Witness ==
    /\ xpc = "done"
    /\ xin.exclude = {}
    /\ xin.projects[1].employer = "e1"
    /\ xin.projects[2].employer = "e1"
    /\ xin.projects[1].end = DateStr("bad", 0, 0, 0)
    /\ xin.projects[2].end = DateStr("ymd", 2022, 5, 10)
    /\ HasEntry("e1")
    /\ \A e \in DOMAIN experience :
          experience[e].end = NoneStr /\ experience[e].duration_months = Some(53)

\* the duration of a project in months: from its start to its end, to today
\* when the end is unbounded, and 0 when the start is unbounded
ProjectMonths(pr) ==
    LET a == _parse_date(pr.start)
        e == _parse_date(pr.end)
        b == IF IsDate(e) THEN e ELSE xin.today
        whole == (b.y - a.y) * 12 + (b.m - a.m) - (IF b.d < a.d THEN 1 ELSE 0)
    IN IF ~IsDate(a) THEN 0 ELSE IF whole > 0 THEN whole ELSE 0

UsesSkill(pr, sid) == \E j \in DOMAIN pr.skills : pr.skills[j] = sid

RECURSIVE SumMonths(_, _)
\* the sum of ProjectMonths over the retained projects i..Len that use sid
SumMonths(sid, i) ==
    IF i > Len(xin.projects) THEN 0
    ELSE (IF IsRetained(xin.projects[i]) /\ UsesSkill(xin.projects[i], sid)
          THEN ProjectMonths(xin.projects[i]) ELSE 0)
         + SumMonths(sid, i + 1)

-----------------------------------------------------------------------------
(* Claims about _months_between, checked under SpecMonths *)

DateLe(a, b) == a = b \/ DateLt(a, b)

\* whole months from a to b, before any floor
WholeMonths(a, b) == (b.y - a.y) * 12 + (b.m - a.m) - (IF b.d < a.d THEN 1 ELSE 0)

\* C12: for concrete a <= b the result is non-negative, and 0 when a = b; for
\* concrete dates in any order it is the whole months from a to b floored at 0,
\* never negative; it is none when either date is unbounded.
C12_MonthsBetween ==
    mb.pc = "done" =>
        /\ (IsDate(mb.a) /\ IsDate(mb.b)) =>
              /\ mb.res.some
              /\ mb.res.v >= 0
              /\ mb.res.v = (IF WholeMonths(mb.a, mb.b) > 0 THEN WholeMonths(mb.a, mb.b) ELSE 0)
              /\ (mb.a = mb.b => mb.res.v = 0)
        /\ (~IsDate(mb.a) \/ ~IsDate(mb.b)) => ~mb.res.some

C12_Witness ==
    /\ mb.pc = "done"
    /\ IsDate(mb.a) /\ IsDate(mb.b)
    /\ DateLt(mb.b, mb.a)
    /\ WholeMonths(mb.a, mb.b) < 0
    /\ mb.res = Some(0)

-----------------------------------------------------------------------------
(* Claims about tr, checked under SpecTr *)

TwoLowercaseLetters(t) ==
    \E i, j \in DOMAIN LowerLetters : t = LowerLetters[i] \o LowerLetters[j]

Under(code) == {trs.v.items[i].val : i \in {k \in DOMAIN trs.v.items : trs.v.items[k].lang = code}}

\* C13: tr returns the value under the requested code when the mapping has it,
\* else the value under 'en', else the first value in insertion order, none for
\* an empty mapping, and a scalar unchanged; the requested code is always a
\* two-letter lowercase code.
C13_TrFallback ==
    trs.pc = "done" =>
        /\ TwoLowercaseLetters(trs.lang)
        /\ ~trs.v.dict => trs.res = trs.v.val
        /\ trs.v.dict =>
              /\ Under(trs.lang) # {} => trs.res \in Under(trs.lang)
              /\ (Under(trs.lang) = {} /\ Under("en") # {}) => trs.res \in Under("en")
              /\ (Under(trs.lang) = {} /\ Under("en") = {} /\ trs.v.items # <<>>)
                    => trs.res = trs.v.items[1].val
              /\ trs.v.items = <<>> => trs.res = "None"

C13_Witness ==
    /\ trs.pc = "done"
    /\ trs.language = [some |-> TRUE, chars |-> <<"R", "u", "_">>]
    /\ trs.lang = "ru"
    /\ trs.v = Localized(<<[lang |-> "fr", val |-> "X"], [lang |-> "en", val |-> "Y"]>>)
    /\ trs.res = "Y"

-----------------------------------------------------------------------------
(* Claims about the order of the experience list, checked under SpecSort *)

EndAbsent(e) == ~IsDate(_parse_date(e.end))
StartAbsent(e) == ~IsDate(_parse_date(e.start))

\* <<y1, m1, y2, m2>> is not below <<y1', m1', y2', m2'>> in the order of tuples
TupleGe(a, b) ==
    \/ a[1] > b[1]
    \/ a[1] = b[1] /\ a[2] > b[2]
    \/ a[1] = b[1] /\ a[2] = b[2] /\ a[3] > b[3]
    \/ a[1] = b[1] /\ a[2] = b[2] /\ a[3] = b[3] /\ a[4] >= b[4]

\* the 4-tuple with today in place of an absent end and of an absent start
TupleWithToday(e) ==
    LET end_d == IF EndAbsent(e) THEN xin.today ELSE _parse_date(e.end)
        start_d == IF StartAbsent(e) THEN xin.today ELSE _parse_date(e.start)
    IN <<end_d.y, end_d.m, start_d.y, start_d.m>>

\* the 4-tuple with today in place of an absent end, and the end so obtained in
\* place of an absent start
TupleWithEnd(e) ==
    LET end_d == IF EndAbsent(e) THEN xin.today ELSE _parse_date(e.end)
        start_d == IF StartAbsent(e) THEN end_d ELSE _parse_date(e.start)
    IN <<end_d.y, end_d.m, start_d.y, start_d.m>>

EndsBeforeThisMonth(e) ==
    LET end_d == _parse_date(e.end)
    IN /\ IsDate(end_d)
       /\ \/ end_d.y < xin.today.y
          \/ end_d.y = xin.today.y /\ end_d.m < xin.today.m

\* C14 as stated: the experience list is in descending order of (end.year,
\* end.month, start.year, start.month) with today for an absent end and for an
\* absent start, and every entry without an end precedes every entry with one.
C14_SortedWithToday ==
    xpc = "done" =>
        \A i, j \in DOMAIN experience :
            i < j =>
                /\ TupleGe(TupleWithToday(experience[i]), TupleWithToday(experience[j]))
                /\ ~(EndAbsent(experience[j]) /\ ~EndAbsent(experience[i]))

\* C14 as amended: the experience list is in descending order of (end.year,
\* end.month, start.year, start.month) with today for an absent end and the end
\* (today when that is absent too) for an absent start, and every entry without
\* an end precedes every entry whose end lies in a month before today's.
C14_SortedWithEnd ==
    xpc = "done" =>
        \A i, j \in DOMAIN experience :
            i < j =>
                /\ TupleGe(TupleWithEnd(experience[i]), TupleWithEnd(experience[j]))
                /\ ~(EndAbsent(experience[j]) /\ EndsBeforeThisMonth(experience[i]))

C14_Witness ==
    /\ xpc = "done"
    /\ Len(experience) = 2
    /\ experience[1].employer = "e2"
    /\ experience[1].start = DateStr("ym", 2022, 1, 0)
    /\ experience[1].end = DateStr("ym", 2021, 7, 0)
    /\ experience[2].employer = "e1"
    /\ StartAbsent(experience[2])
    /\ experience[2].end = DateStr("ym", 2021, 7, 0)

-----------------------------------------------------------------------------
(* Claims about the order of the stages of one render, checked under Spec *)

StageOrder == <<"engine_check", "recipe_check", "build", "workspace", "run",
                "collect", "resolve">>

\* the stages that have been entered when render is at position p
EnteredAt(p) ==
    CASE p \in {"template", "save_tex", "docker"} -> 0
      [] p = "dockerfile" -> 1
      [] p = "build" -> 2
      [] p = "mktemp" -> 3
      [] p \in {"write", "run"} -> 4
      [] p = "collect" -> 5
      [] p = "resolve_exit" -> 6
      [] OTHER -> 7

\* the stages that have been entered when render has failed in stage s
EnteredWhenFailed(s) ==
    CASE s = "template" -> 0
      [] s = "docker" -> 1
      [] s = "dockerfile" -> 2
      [] s = "build" -> 3
      [] s = "write" -> 4
      [] s = "run" -> 5
      [] s = "collect" -> 6
      [] OTHER -> 7

Occurrences(stage) == Cardinality({i \in DOMAIN stages : stages[i] = stage})

\* C15: the stages of one render are entered in the order engine check, recipe
\* check, image build, workspace, command run, collection, resolution, each only
\* when the one before it has completed; the image build and the command run are
\* invoked at most once; after a failure in a stage no later stage is entered.
C15_StagesInOrder ==
    /\ Len(stages) <= Len(StageOrder)
    /\ stages = SubSeq(StageOrder, 1, Len(stages))
    /\ builds = Occurrences("build") /\ builds <= 1
    /\ runs = Occurrences("run") /\ runs <= 1
    /\ pc # "failed" => Len(stages) = EnteredAt(pc)
    /\ pc = "failed" => Len(stages) = EnteredWhenFailed(error.stage)

C15_Witness ==
    /\ pc = "failed"
    /\ error.stage = "run"
    /\ stages = <<"engine_check", "recipe_check", "build", "workspace", "run">>
    /\ builds = 1
    /\ runs = 1

====
